---- MODULE Spec2Model ----
(***************************************************************************)
(* A model of the loged log streamer (src/src/main.go): the LogStreamer    *)
(* hubs, the global streamers map, the websocket handler, the follow loop  *)
(* and its broadcast pass, the initial snapshot and the load-more window.  *)
(*                                                                         *)
(* A log file is append-only, so a file is modelled by its number of       *)
(* complete lines and a line by its 1-based position in the file.          *)
(***************************************************************************)
EXTENDS Integers, Sequences, FiniteSets, TLC

\* ------------------------------------------------------------------ bounds
NumConns == 2        \* websocket connections (handleWebSocket invocations)
MaxEvents == 3       \* requests, appended lines and dropped connections in a run
SnapSlack == 2       \* file lengths tried on either side of the snapshot limit
MaxPageLen == 3      \* lines of the file a load-more request reads
MaxAuthReqs == 2     \* requests that reach requireAuth in a run
MaxLoads == 2        \* clicks on "Load 100 More Lines" covered by the file lengths
MaxOldLines == 1     \* lines already in the file when a scenario of the follow loop begins
IntMax == 32767      \* largest value of the model's int (Go's int is 64 bits wide)

\* -------------------------------------------------------- program constants
SnapshotLimit == 200 \* AddClient: "if len(lines) > 200"
DefaultLimit == 100  \* handleLoadMore: "limit := 100"
LoadMoreStep == 100  \* page script: "totalLines - shownLines - 100", "&limit=100"

\* ------------------------------------------------------------------- paths
\* Three request paths: a readable log file, a path that does not exist and a
\* file that exists (os.Stat succeeds) but cannot be opened (os.Open fails).
Paths == {"good", "absent", "locked"}

PathKind(p) ==
    CASE p = "good" -> "ok"
      [] p = "absent" -> "notexist"
      [] p = "locked" -> "unreadable"

Conns == 1..NumConns
\* A LogStreamer object is identified by the connection whose handler built it.
Hubs == Conns
NoHub == 0
NoPath == "none"
NoPage == <<>>

\* No message has been read from any socket.
NoControl == [c \in Conns |-> <<>>]

VARIABLES
    fileLen,    \* number of complete lines of the "good" log file
    filePartial, \* the file ends in a fragment without a newline yet
    events,     \* requests, appends and dropped connections so far
    streamers,  \* the global map: path -> LogStreamer (NoHub: no entry)
    hubPath,    \* LogStreamer.filename (NoPath: object not constructed)
    clients,    \* LogStreamer.clients, a slice of connections
    mutex,      \* LogStreamer.mutex: "free" or "loop" (held by Broadcast)
    pc,         \* position of each handleWebSocket invocation
    reqPath,    \* handleWebSocket: logPath
    hubOf,      \* handleWebSocket: the local variable streamer
    connState,  \* the websocket: "open", "stalled" (the peer does not read and
                \* the send buffers are full), "peergone" (the peer left),
                \* "broken" (the peer left and a write has failed), "closed"
    recv,       \* messages the peer of each connection has received, in order
    snapPc,     \* position of AddClient's snapshot goroutine
    snapN,      \* snapshot goroutine: len(lines) (-1: file not read)
    snapI,      \* snapshot goroutine: the loop index i (0-based)
    loopPc,     \* position of Start's follow goroutine
    loopPos,    \* follow goroutine: lines of the file consumed by the scanner
    loopBuf,    \* follow goroutine: lines read and not yet broadcast
    loopMid,    \* follow goroutine: the scanner's position lies inside a line
    bcastI,     \* Broadcast: the loop index i (1-based here)
    crashed,    \* the Go runtime aborted the process
    started,    \* history: how often a follow goroutine began to run
    passStart,  \* history: clients when the current broadcast pass began
    passLog,    \* history: the writes of the current broadcast pass
    pageReq,    \* handleLoadMore: the offset and limit parameters
    pageOut,    \* handleLoadMore: the response
    authCfg,    \* config.Auth: Enabled, Username, Password
    authLog,    \* history: the requests requireAuth saw and what it did with each
    totalLines, \* viewer page: let totalLines
    shownLines, \* viewer page: let shownLines
    logs,       \* viewer page: the lines in the "logs" element, top to bottom
    data,       \* viewer page: the last reply to a load-more request
    control     \* the messages each handler read from its socket, and what
                \* became of the goroutine started for each

vars == <<fileLen, filePartial, loopMid, events, streamers, hubPath, clients, mutex, pc, reqPath,
          hubOf, connState, recv, snapPc, snapN, snapI, loopPc, loopPos,
          loopBuf, bcastI, crashed, started, passStart, passLog,
          pageReq, pageOut, authCfg, authLog, totalLines, shownLines, logs, data, control>>

fileVars == <<fileLen, filePartial, events>>
hubVars == <<streamers, hubPath, clients, mutex>>
connVars == <<pc, reqPath, hubOf, connState, recv>>
snapVars == <<snapPc, snapN, snapI>>
loopVars == <<loopPc, loopPos, loopMid, loopBuf, bcastI>>
histVars == <<started, passStart, passLog>>
pageVars == <<pageReq, pageOut>>
gateVars == <<authCfg, authLog>>
viewVars == <<totalLines, shownLines, logs, data>>
webVars == <<gateVars, viewVars, pageVars, control>>

\* ---------------------------------------------------------------- messages
SnapMsg(i) == [k |-> "snap", a |-> i, b |-> 0]
LiveMsg(i) == [k |-> "live", a |-> i, b |-> 0]
\* A token of the follow goroutine's scanner as the viewer gets it: line x,
\* or for x < 0 a fragment of line -x, sent like any line.
PartMsg(i) == [k |-> "part", a |-> i, b |-> 0]
LineMsg(x) == IF x > 0 THEN LiveMsg(x) ELSE PartMsg(-x)

\* fmt.Sprintf("__META__:LOAD_MORE_RESPONSE:%d", len(lines))
LoadMoreMetaMsg(total) == [k |-> "more", a |-> total, b |-> 0]

\* The two counts in the wrong order.
MetaMsgSwapped(total, shown) == [k |-> "meta", a |-> shown, b |-> total]

\* fmt.Sprintf("__META__:INITIAL_LOAD:%d:%d", totalLines, shownLines)
MetaMsg(total, shown) == [k |-> "meta", a |-> total, b |-> shown]
\* "Error: " + err.Error()
ErrorMsg == [k |-> "error", a |-> 0, b |-> 0]

\* ----------------------------------------------------------------- helpers
RemoveAt(s, i) == SubSeq(s, 1, i - 1) \o SubSeq(s, i + 1, Len(s))

RECURSIVE IndexOf(_, _, _)
IndexOf(s, x, i) ==
    IF i > Len(s) THEN 0
    ELSE IF s[i] = x THEN i
    ELSE IndexOf(s, x, i + 1)

\* A connection that is not in the slice takes the last one out with it.
RemoveFirstOrLast(s, x) ==
    LET i == IndexOf(s, x, 1) IN
    IF i = 0 THEN SubSeq(s, 1, Len(s) - 1) ELSE RemoveAt(s, i)

\* The loop finds nothing to drop.
RemoveNone(s, x) == s

\* RemoveClient's loop: drop the first occurrence of conn, if any.
RemoveFirst(s, x) ==
    LET i == IndexOf(s, x, 1) IN IF i = 0 THEN s ELSE RemoveAt(s, i)

\* Broadcast runs its pass without taking the mutex.
MutexNeverHeld == "free"

\* The mutex while Broadcast is between ls.mutex.Lock() and ls.mutex.Unlock().
MutexHeld == "loop"

\* A Broadcast that returns without ls.mutex.Unlock().
MutexUnlockForgotten == "loop"

\* The value of a hub's mutex after "defer ls.mutex.Unlock()" has run.
MutexUnlock == "free"

\* One lock for all hubs.
MutexLockGlobal(h) == \A g \in Hubs : mutex[g] = "free"

\* The mutex excludes nobody.
MutexLockNoExclusion(h) == TRUE

\* ls.mutex.Lock() returns only when nobody holds the mutex.
MutexLock(h) == mutex[h] = "free"

\* conn.WriteMessage: TRUE is a nil error. A write to a connection the server
\* closed fails; a write to a connection whose peer left may still be accepted
\* by the kernel or may fail, and once one has failed the next ones fail too.
\* No write deadline is set anywhere, so a write to a stalled connection does
\* not return: it has no outcome.
WriteOutcomes(st) ==
    CASE st = "open" -> {TRUE}
      [] st = "closed" -> {FALSE}
      [] st = "broken" -> {FALSE}
      [] st = "stalled" -> {}
      [] OTHER -> {TRUE, FALSE}

\* The connection after a write whose error the caller drops.
AfterWrite(st, ok) == IF ~ok /\ st = "peergone" THEN "broken" ELSE st

\* conn.ReadMessage() returns an error: the peer left or the connection was
\* closed. (No read deadline is set: a silent peer keeps the handler waiting.)
ReadFails(st) == st \in {"peergone", "broken", "closed"}

Deliver(c, ok, m) == IF ok /\ connState[c] = "open" THEN Append(recv[c], m) ELSE recv[c]


\* config.yml switches authentication off (or is missing: the zero Config).
GateOff ==
    /\ authCfg = [enabled |-> FALSE, username |-> "", password |-> ""]
    /\ authLog = <<>>

\* No viewer page is followed.
NoViewerPage ==
    /\ totalLines = 0
    /\ shownLines = 0
    /\ logs = <<>>
    /\ data = NoPage

\* -------------------------------------------------------------------- Init
Init ==
    /\ fileLen = 0
    /\ filePartial = FALSE
    /\ events = 0
    /\ streamers = [p \in Paths |-> NoHub]
    /\ hubPath = [h \in Hubs |-> NoPath]
    /\ clients = [h \in Hubs |-> <<>>]
    /\ mutex = [h \in Hubs |-> "free"]
    /\ pc = [c \in Conns |-> "idle"]
    /\ reqPath = [c \in Conns |-> NoPath]
    /\ hubOf = [c \in Conns |-> NoHub]
    /\ connState = [c \in Conns |-> "open"]
    /\ recv = [c \in Conns |-> <<>>]
    /\ snapPc = [c \in Conns |-> "none"]
    /\ snapN = [c \in Conns |-> -1]
    /\ snapI = [c \in Conns |-> 0]
    /\ loopPc = [h \in Hubs |-> "none"]
    /\ loopPos = [h \in Hubs |-> 0]
    /\ loopBuf = [h \in Hubs |-> <<>>]
    /\ bcastI = [h \in Hubs |-> 0]
    /\ loopMid = [h \in Hubs |-> FALSE]
    /\ crashed = FALSE
    /\ started = [h \in Hubs |-> 0]
    /\ passStart = [h \in Hubs |-> <<>>]
    /\ passLog = [h \in Hubs |-> <<>>]
    /\ pageReq = NoPage
    /\ pageOut = NoPage
    /\ control = NoControl
    /\ GateOff
    /\ NoViewerPage

\* ------------------------------------------------------------- environment
\* Another process has written the beginning of a line and not yet its end.
AppendPartial ==
    /\ ~crashed
    /\ ~filePartial
    /\ filePartial' = TRUE
    /\ UNCHANGED <<webVars, fileLen, events, hubVars, connVars, snapVars, loopVars,
                   crashed, histVars>>

\* Another process appends one complete line to the log file (or the rest of
\* the line it had begun).
AppendLine ==
    /\ ~crashed
    /\ events < MaxEvents
    /\ fileLen' = fileLen + 1
    /\ filePartial' = FALSE
    /\ events' = events + 1
    /\ UNCHANGED <<webVars, hubVars, connVars, snapVars, loopVars, crashed, histVars>>

\* The browser closes the socket or the network drops it.
PeerClose(c) ==
    /\ ~crashed
    /\ pc[c] = "serve"
    /\ connState[c] \in {"open", "stalled"}
    /\ events < MaxEvents
    /\ events' = events + 1
    /\ connState' = [connState EXCEPT ![c] = "peergone"]
    /\ UNCHANGED <<webVars, fileLen, filePartial, hubVars, pc, reqPath, hubOf, recv, snapVars,
                   loopVars, crashed, histVars>>

\* The browser stops reading from the socket (a suspended tab, a congested
\* link) until the send buffers on the way are full.
PeerStall(c) ==
    /\ ~crashed
    /\ pc[c] = "serve"
    /\ connState[c] = "open"
    /\ events < MaxEvents
    /\ events' = events + 1
    /\ connState' = [connState EXCEPT ![c] = "stalled"]
    /\ UNCHANGED <<webVars, fileLen, filePartial, hubVars, pc, reqPath, hubOf, recv, snapVars,
                   loopVars, crashed, histVars>>

\* --------------------------------------------------------- handleWebSocket
\* Where the handler goes after "streamer, exists := streamers[logPath]".
AfterLookup(exists) == IF exists THEN "add" ELSE "new"

\* A request for /ws?file=p arrives: logPath := r.URL.Query().Get("file");
\* upgrader.Upgrade(w, r, nil); streamer, exists := streamers[logPath]
\* (no lock is taken). Connections are numbered in their order of arrival.
Lookup(c, p) ==
    /\ ~crashed
    /\ pc[c] = "idle"
    /\ \A d \in Conns : d < c => pc[d] # "idle"
    /\ events < MaxEvents
    /\ events' = events + 1
    /\ reqPath' = [reqPath EXCEPT ![c] = p]
    /\ LET h == streamers[p] IN
         /\ hubOf' = [hubOf EXCEPT ![c] = h]
         /\ pc' = [pc EXCEPT ![c] = AfterLookup(h # NoHub)]
    /\ UNCHANGED <<webVars, fileLen, filePartial, hubVars, connState, recv, snapVars, loopVars,
                   crashed, histVars>>

\* NewLogStreamer fails only when os.Stat reports that the path does not exist.
NewLogStreamerFails(p) == PathKind(p) = "notexist"

\* if !exists { streamer, err = NewLogStreamer(logPath); on error write
\*   "Error: ..." to the connection, close it and return;
\*   streamers[logPath] = streamer; streamer.Start() }
\* Start spawns the follow goroutine.
NewLogStreamer(c) ==
    /\ ~crashed
    /\ pc[c] = "new"
    /\ IF NewLogStreamerFails(reqPath[c])
       THEN /\ recv' = [recv EXCEPT ![c] = Deliver(c, TRUE, ErrorMsg)]
            /\ connState' = [connState EXCEPT ![c] = "closed"]
            /\ pc' = [pc EXCEPT ![c] = "done"]
            /\ UNCHANGED <<hubVars, hubOf, loopPc>>
       ELSE /\ hubPath' = [hubPath EXCEPT ![c] = reqPath[c]]
            /\ clients' = [clients EXCEPT ![c] = <<>>]
            /\ streamers' = [streamers EXCEPT ![reqPath[c]] = c]
            /\ hubOf' = [hubOf EXCEPT ![c] = c]
            /\ loopPc' = [loopPc EXCEPT ![c] = "open"]
            /\ pc' = [pc EXCEPT ![c] = "add"]
            /\ UNCHANGED <<mutex, connState, recv>>
    /\ UNCHANGED <<webVars, fileVars, reqPath, snapVars, loopPos, loopMid, loopBuf,
                   bcastI,
                   crashed, histVars>>

\* Two handlers touch the unsynchronised map at once, one of them writing
\* (the other writes too, or is a request that arrives and reads): the Go
\* runtime may detect it ("fatal error: concurrent map writes" /
\* "concurrent map read and map write") and abort the process.
MapRaceFatal ==
    /\ ~crashed
    /\ \E c1, c2 \in Conns :
         /\ c1 # c2
         /\ pc[c1] = "new" /\ ~NewLogStreamerFails(reqPath[c1])
         /\ \/ /\ pc[c2] = "idle" /\ events < MaxEvents
               /\ \A d \in Conns : d < c2 => pc[d] # "idle"
            \/ pc[c2] = "new" /\ ~NewLogStreamerFails(reqPath[c2])
    /\ crashed' = TRUE
    /\ UNCHANGED <<webVars, fileVars, hubVars, connVars, snapVars, loopVars, histVars>>

\* A register that appends the connection twice.
AddClientTwice(c) ==
    /\ ~crashed
    /\ pc[c] = "add"
    /\ LET h == hubOf[c] IN
         /\ MutexLock(h)
         /\ clients' = [clients EXCEPT ![h] = Append(Append(@, c), c)]
    /\ snapPc' = [snapPc EXCEPT ![c] = "open"]
    /\ pc' = [pc EXCEPT ![c] = "serve"]
    /\ UNCHANGED <<webVars, fileVars, streamers, hubPath, mutex, reqPath, hubOf,
                   connState, recv, snapN, snapI, loopVars, crashed, histVars>>

\* streamer.AddClient(conn): append under the mutex, then spawn the snapshot
\* goroutine.
AddClient(c) ==
    /\ ~crashed
    /\ pc[c] = "add"
    /\ LET h == hubOf[c] IN
         /\ MutexLock(h)
         /\ clients' = [clients EXCEPT ![h] = Append(@, c)]
    /\ snapPc' = [snapPc EXCEPT ![c] = "open"]
    /\ pc' = [pc EXCEPT ![c] = "serve"]
    /\ UNCHANGED <<webVars, fileVars, streamers, hubPath, mutex, reqPath, hubOf,
                   connState, recv, snapN, snapI, loopVars, crashed, histVars>>

\* conn.ReadMessage() returns an error (the peer left, or Broadcast closed the
\* connection); streamer.RemoveClient(conn) removes it under the mutex and
\* closes it; the handler returns.
RemoveClient(c) ==
    /\ ~crashed
    /\ pc[c] = "serve"
    /\ ReadFails(connState[c])
    /\ LET h == hubOf[c] IN
         /\ MutexLock(h)
         /\ clients' = [clients EXCEPT ![h] = RemoveFirst(@, c)]
    /\ connState' = [connState EXCEPT ![c] = "closed"]
    /\ pc' = [pc EXCEPT ![c] = "done"]
    /\ UNCHANGED <<webVars, fileVars, streamers, hubPath, mutex, reqPath, hubOf, recv,
                   snapVars, loopVars, crashed, histVars>>


\* ------------------------------------------- AddClient's snapshot goroutine
\* Off by one: the last 199 lines.
SnapStartShort(n) == IF n > SnapshotLimit - 1 THEN n - (SnapshotLimit - 1) ELSE 0

\* start := 0; if len(lines) > 200 { start = len(lines) - 200 }
SnapStart(n) == IF n > SnapshotLimit THEN n - SnapshotLimit ELSE 0

\* Off by one: the send loop stops before the last line.
SnapMoreShort(i, n) == i < n - 1

\* The loop condition "i < len(lines)" of the send loop.
SnapMore(i, n) == i < n

\* lines[i] of the slice the scanner filled: the file's line i+1.
SnapLine(i) == i + 1

\* os.Open(ls.filename); on error return; read every line; compute start.
SnapOpen(c) ==
    /\ ~crashed
    /\ snapPc[c] = "open"
    /\ IF PathKind(hubPath[hubOf[c]]) = "ok"
       THEN /\ snapN' = [snapN EXCEPT ![c] = fileLen]
            /\ snapI' = [snapI EXCEPT ![c] = SnapStart(fileLen)]
            /\ snapPc' = [snapPc EXCEPT ![c] = "send"]
       ELSE /\ snapPc' = [snapPc EXCEPT ![c] = "done"]
            /\ UNCHANGED <<snapN, snapI>>
    /\ UNCHANGED <<webVars, fileVars, hubVars, connVars, loopVars, crashed, histVars>>

\* for i := start; i < len(lines); i++ { conn.WriteMessage(lines[i]) }
\* (the error of WriteMessage is dropped)
SnapSend(c) ==
    /\ ~crashed
    /\ snapPc[c] = "send"
    /\ SnapMore(snapI[c], snapN[c])
    /\ \E ok \in WriteOutcomes(connState[c]) :
         /\ recv' = [recv EXCEPT ![c] = Deliver(c, ok, SnapMsg(SnapLine(snapI[c])))]
         /\ connState' = [connState EXCEPT ![c] = AfterWrite(@, ok)]
    /\ snapI' = [snapI EXCEPT ![c] = @ + 1]
    /\ UNCHANGED <<webVars, fileVars, hubVars, pc, reqPath, hubOf, snapPc,
                   snapN, loopVars, crashed, histVars>>

\* totalLines := len(lines); shownLines := len(lines) - start;
\* conn.WriteMessage("__META__:INITIAL_LOAD:total:shown")
SnapMeta(c) ==
    /\ ~crashed
    /\ snapPc[c] = "send"
    /\ ~SnapMore(snapI[c], snapN[c])
    /\ \E ok \in WriteOutcomes(connState[c]) :
         /\ recv' = [recv EXCEPT ![c] =
                      Deliver(c, ok, MetaMsg(snapN[c], snapN[c] - SnapStart(snapN[c])))]
         /\ connState' = [connState EXCEPT ![c] = AfterWrite(@, ok)]
    /\ snapPc' = [snapPc EXCEPT ![c] = "done"]
    /\ UNCHANGED <<webVars, fileVars, hubVars, pc, reqPath, hubOf, snapN,
                   snapI, loopVars, crashed, histVars>>

\* file.Seek(0, 2) with a position that is not the end of the file.
SeekStart(n) == 0

\* file.Seek(0, 2): the offset of the end of the file.
SeekEnd(n) == n

\* ------------------------------------------------ Start's follow goroutine
\* os.Open(ls.filename); on error return; file.Seek(0, 2); bufio.NewScanner
LoopOpen(h) ==
    /\ ~crashed
    /\ loopPc[h] = "open"
    /\ started' = [started EXCEPT ![h] = @ + 1]
    /\ IF PathKind(hubPath[h]) = "ok"
       THEN /\ loopPos' = [loopPos EXCEPT ![h] = SeekEnd(fileLen)]
            /\ loopMid' = [loopMid EXCEPT ![h] = filePartial]
            /\ loopPc' = [loopPc EXCEPT ![h] = "scan"]
       ELSE /\ loopPc' = [loopPc EXCEPT ![h] = "done"]
            /\ UNCHANGED <<loopPos, loopMid>>
    /\ UNCHANGED <<webVars, fileVars, hubVars, connVars, snapVars, loopBuf, bcastI,
                   crashed, passStart, passLog>>

\* The scanner forgets its position: every Read starts at the top of the file.
ReadChunkFromTop(pos, n) == [i \in 1..n |-> i]

\* The lines of one Read handed out last first.
ReadChunkReversed(pos, n) == [i \in 1..(n - pos) |-> n + 1 - i]

\* One Read of the scanner: the lines between the scanner's position and the
\* current end of the file, in file order.
ReadChunk(pos, n) == [i \in 1..(n - pos) |-> pos + i]

\* The goroutine opens the file again when the scanner stops.
LoopAtEOFReopen == "open"

\* The tokens the scanner hands out after one Read, for a scanner whose
\* position is after line pos (mid: inside line pos + 1) and a file of n whole
\* lines (partial: followed by a fragment). bufio.ScanLines cuts at newlines
\* and, when the Read after it meets the end of the file, hands out what is
\* left without a newline as a last token.
ReadTokens(pos, mid, n, partial) ==
    LET whole == ReadChunk(pos, n)
        lines == [i \in 1..Len(whole) |-> IF i = 1 /\ mid THEN -whole[i] ELSE whole[i]]
    IN IF partial /\ ~(mid /\ n = pos) THEN Append(lines, -(n + 1)) ELSE lines

\* Where the goroutine goes when scanner.Scan() returns false: "for
\* scanner.Scan() { ... }" falls through and the goroutine returns.
LoopAtEOF == "done"

\* A follow goroutine that tells the hub's viewers when its loop ends.
LoopScanNotifying(h) ==
    /\ ~crashed
    /\ loopPc[h] = "scan"
    /\ LET chunk == ReadTokens(loopPos[h], loopMid[h], fileLen, filePartial) IN
         IF chunk = <<>>
         THEN /\ loopPc' = [loopPc EXCEPT ![h] = LoopAtEOF]
              /\ recv' = [c \in Conns |->
                             IF \E i \in 1..Len(clients[h]) : clients[h][i] = c
                             THEN Append(recv[c], ErrorMsg) ELSE recv[c]]
              /\ UNCHANGED <<loopPos, loopMid, loopBuf>>
         ELSE /\ loopBuf' = [loopBuf EXCEPT ![h] = chunk]
              /\ loopPos' = [loopPos EXCEPT ![h] = fileLen]
              /\ loopMid' = [loopMid EXCEPT ![h] = FALSE]
              /\ loopPc' = [loopPc EXCEPT ![h] = "bcast"]
              /\ UNCHANGED recv
    /\ UNCHANGED <<webVars, fileVars, hubVars, pc, reqPath, hubOf, connState, snapVars,
                   bcastI, crashed, histVars>>

\* scanner.Scan() with an empty buffer: the scanner reads the file. A Read at
\* the end of the file returns io.EOF, Scan returns false and the goroutine
\* returns; otherwise the lines read are handed out one by one.
LoopScan(h) ==
    /\ ~crashed
    /\ loopPc[h] = "scan"
    /\ LET chunk == ReadTokens(loopPos[h], loopMid[h], fileLen, filePartial) IN
         IF chunk = <<>>
         THEN /\ loopPc' = [loopPc EXCEPT ![h] = LoopAtEOF]
              /\ UNCHANGED <<loopPos, loopMid, loopBuf>>
         ELSE /\ loopBuf' = [loopBuf EXCEPT ![h] = chunk]
              /\ loopPos' = [loopPos EXCEPT ![h] = fileLen]
              /\ loopMid' = [loopMid EXCEPT ![h] = FALSE]
              /\ loopPc' = [loopPc EXCEPT ![h] = "bcast"]
    /\ UNCHANGED <<webVars, fileVars, hubVars, connVars, snapVars, bcastI, crashed,
                   histVars>>

\* ---------------------------------------------------------------- Broadcast
\* Where the follow goroutine goes when Broadcast returns: to the next token
\* of the buffer, or to a Scan that reads the file, or, when the token just
\* sent was the fragment at the end of the file, to a Scan that returns false
\* (the scanner has seen io.EOF).
AfterBroadcast(buf, pos) ==
    IF Tail(buf) # <<>> THEN "bcast"
    ELSE IF Head(buf) < 0 /\ -Head(buf) > pos THEN LoopAtEOF
    ELSE "scan"

\* The pass is given up at the first failed write.
BroadcastNextIndexAbort(i, ok) == IF ok THEN i - 1 ELSE 0

\* The loop index after the body ran for index i: the "i--" of the for loop,
\* whether or not the write failed.
BroadcastNextIndex(i, ok) == i - 1

\* ls.mutex.Lock(); for i := len(ls.clients) - 1; i >= 0; i-- { ... };
\* ls.mutex.Unlock() for a hub without clients.
BroadcastEmpty(h) ==
    /\ ~crashed
    /\ loopPc[h] = "bcast"
    /\ MutexLock(h)
    /\ clients[h] = <<>>
    /\ loopBuf' = [loopBuf EXCEPT ![h] = Tail(@)]
    /\ loopPc' = [loopPc EXCEPT ![h] = AfterBroadcast(loopBuf[h], loopPos[h])]
    /\ UNCHANGED <<webVars, fileVars, hubVars, connVars, snapVars, loopPos, loopMid, bcastI,
                   crashed, histVars>>

\* One iteration of the loop of Broadcast, at index i (1-based here):
\*   client := ls.clients[i]; err := client.WriteMessage(message);
\*   if err != nil { client.Close(); ls.clients = append(ls.clients[:i],
\*   ls.clients[i+1:]...) }
\* The first iteration follows ls.mutex.Lock(); ls.mutex.Unlock() follows the
\* last one, and scanner.Scan() then hands out the next buffered line or
\* reads the file again.
BroadcastSend(h) ==
    /\ ~crashed
    /\ \/ loopPc[h] = "bcast" /\ MutexLock(h) /\ clients[h] # <<>>
       \/ loopPc[h] = "send"
    /\ LET first == loopPc[h] = "bcast"
           i == IF first THEN Len(clients[h]) ELSE bcastI[h]
           client == clients[h][i]
       IN \E ok \in WriteOutcomes(connState[client]) :
            LET next == BroadcastNextIndex(i, ok) IN
            /\ recv' = [recv EXCEPT ![client] = Deliver(client, ok, LineMsg(Head(loopBuf[h])))]
            /\ connState' = IF ok THEN connState
                            ELSE [connState EXCEPT ![client] = "closed"]
            /\ clients' = IF ok THEN clients
                          ELSE [clients EXCEPT ![h] = RemoveAt(@, i)]
            /\ passStart' = IF first THEN [passStart EXCEPT ![h] = clients[h]]
                            ELSE passStart
            /\ passLog' = [passLog EXCEPT ![h] =
                             (IF first THEN <<>> ELSE @) \o <<<<client, ok>>>>]
            /\ IF next >= 1
               THEN /\ bcastI' = [bcastI EXCEPT ![h] = next]
                    /\ mutex' = [mutex EXCEPT ![h] = MutexHeld]
                    /\ loopPc' = [loopPc EXCEPT ![h] = "send"]
                    /\ UNCHANGED loopBuf
               ELSE /\ bcastI' = [bcastI EXCEPT ![h] = 0]
                    /\ mutex' = [mutex EXCEPT ![h] = MutexUnlock]
                    /\ loopBuf' = [loopBuf EXCEPT ![h] = Tail(@)]
                    /\ loopPc' = [loopPc EXCEPT ![h] =
                                    AfterBroadcast(loopBuf[h], loopPos[h])]
    /\ UNCHANGED <<webVars, fileVars, streamers, hubPath, pc, reqPath, hubOf, snapVars,
                   loopPos, loopMid, crashed, started>>

\* ls.mutex.Lock() and the first client.WriteMessage of a pass whose first
\* viewer is stalled: the goroutine holds the mutex and waits in the write.
BroadcastLock(h) ==
    /\ ~crashed
    /\ loopPc[h] = "bcast"
    /\ MutexLock(h)
    /\ clients[h] # <<>>
    /\ connState[clients[h][Len(clients[h])]] = "stalled"
    /\ mutex' = [mutex EXCEPT ![h] = MutexHeld]
    /\ loopPc' = [loopPc EXCEPT ![h] = "send"]
    /\ bcastI' = [bcastI EXCEPT ![h] = Len(clients[h])]
    /\ passStart' = [passStart EXCEPT ![h] = clients[h]]
    /\ passLog' = [passLog EXCEPT ![h] = <<>>]
    /\ UNCHANGED <<webVars, fileVars, streamers, hubPath, clients, connVars, snapVars,
                   loopPos, loopMid, loopBuf, crashed, started>>

\* ---------------------------------------------------------------------- Next
Next ==
    \/ AppendLine
    \/ MapRaceFatal
    \/ \E c \in Conns : PeerClose(c)
    \/ \E c \in Conns, p \in Paths : Lookup(c, p)
    \/ \E c \in Conns : NewLogStreamer(c)
    \/ \E c \in Conns : AddClient(c)
    \/ \E c \in Conns : RemoveClient(c)
    \/ \E c \in Conns : SnapOpen(c)
    \/ \E c \in Conns : SnapSend(c)
    \/ \E c \in Conns : SnapMeta(c)
    \/ \E h \in Hubs : LoopOpen(h)
    \/ \E h \in Hubs : LoopScan(h)
    \/ \E h \in Hubs : BroadcastEmpty(h)
    \/ \E h \in Hubs : BroadcastSend(h)

Spec == Init /\ [][Next]_vars


\* ------------------------------------------------------------ handleLoadMore
\* Go's int arithmetic wraps around (two's complement).
WrapInt(x) == ((x + IntMax + 1) % (2 * (IntMax + 1))) - (IntMax + 1)

\* The slice "for i := start; i < end; i++ { result = append(result, lines[i]) }"
\* collects: the file's lines start+1 .. end (1-based), none when end <= start.
Window(start, end) == [k \in 1..(end - start) |-> start + k]

\* A handler that does not lower the end of the window to len(lines).
LoadMoreResponseUnclamped(total, hasOffset, offsetArg, hasLimit, limitArg) ==
    LET offset == IF hasOffset THEN offsetArg ELSE 0
        limit == IF hasLimit THEN limitArg ELSE DefaultLimit
        start == IF offset < 0 THEN 0 ELSE offset
        end == WrapInt(start + limit)
    IN [status |-> 200, lines |-> Window(start, end), total |-> total,
        offset |-> start, limit |-> limit]

\* offset := 0; limit := 100; Sscanf overwrites them when the parameter is
\* given; start := offset, raised to 0; end := start + limit, lowered to
\* len(lines); the response holds the lines, the total, start and limit.
LoadMoreResponse(total, hasOffset, offsetArg, hasLimit, limitArg) ==
    LET offset == IF hasOffset THEN offsetArg ELSE 0
        limit == IF hasLimit THEN limitArg ELSE DefaultLimit
        start == IF offset < 0 THEN 0 ELSE offset
        sum == WrapInt(start + limit)
        end == IF sum > total THEN total ELSE sum
    IN [status |-> 200, lines |-> Window(start, end), total |-> total,
        offset |-> start, limit |-> limit]

\* http.Error(w, "Cannot open file", http.StatusInternalServerError)
LoadMoreError == [status |-> 500, lines |-> <<>>, total |-> 0, offset |-> 0, limit |-> 0]

PageOffsets == (-2..(MaxPageLen + 1)) \cup {-(IntMax + 1), IntMax - 1, IntMax}
PageLimits == (-1..(MaxPageLen + 1)) \cup {-(IntMax + 1), IntMax - 1, IntMax}

\* The handler goes through the registry: it builds and stores a hub.
handleLoadMoreViaHub(p, hasOffset, o, hasLimit, l) ==
    /\ pageReq = NoPage
    /\ pageReq' = [path |-> p, hasOffset |-> hasOffset, offset |-> o,
                   hasLimit |-> hasLimit, limit |-> l]
    /\ pageOut' = LoadMoreResponse(fileLen, hasOffset, o, hasLimit, l)
    /\ streamers' = [streamers EXCEPT ![p] = 1]
    /\ hubPath' = [hubPath EXCEPT ![1] = p]
    /\ UNCHANGED <<gateVars, viewVars, control, fileVars, clients, mutex, connVars, snapVars,
                   loopVars, crashed, histVars>>

\* GET /api/loadmore?file=p&offset=o&limit=l
handleLoadMore(p, hasOffset, o, hasLimit, l) ==
    /\ ~crashed
    /\ pageReq = NoPage
    /\ pageReq' = [path |-> p, hasOffset |-> hasOffset, offset |-> o,
                   hasLimit |-> hasLimit, limit |-> l]
    /\ pageOut' = IF PathKind(p) = "ok"
                  THEN LoadMoreResponse(fileLen, hasOffset, o, hasLimit, l)
                  ELSE LoadMoreError
    /\ UNCHANGED <<gateVars, viewVars, control, fileVars, hubVars, connVars, snapVars,
                   loopVars, crashed, histVars>>

PageInit ==
    /\ fileLen \in 0..MaxPageLen
    /\ filePartial = FALSE
    /\ events = 0
    /\ streamers = [p \in Paths |-> NoHub]
    /\ hubPath = [h \in Hubs |-> NoPath]
    /\ clients = [h \in Hubs |-> <<>>]
    /\ mutex = [h \in Hubs |-> "free"]
    /\ pc = [c \in Conns |-> "idle"]
    /\ reqPath = [c \in Conns |-> NoPath]
    /\ hubOf = [c \in Conns |-> NoHub]
    /\ connState = [c \in Conns |-> "open"]
    /\ recv = [c \in Conns |-> <<>>]
    /\ snapPc = [c \in Conns |-> "none"]
    /\ snapN = [c \in Conns |-> -1]
    /\ snapI = [c \in Conns |-> 0]
    /\ loopPc = [h \in Hubs |-> "none"]
    /\ loopPos = [h \in Hubs |-> 0]
    /\ loopBuf = [h \in Hubs |-> <<>>]
    /\ bcastI = [h \in Hubs |-> 0]
    /\ loopMid = [h \in Hubs |-> FALSE]
    /\ crashed = FALSE
    /\ started = [h \in Hubs |-> 0]
    /\ passStart = [h \in Hubs |-> <<>>]
    /\ passLog = [h \in Hubs |-> <<>>]
    /\ pageReq = NoPage
    /\ pageOut = NoPage
    /\ control = NoControl
    /\ GateOff
    /\ NoViewerPage

PageNext ==
    \E p \in Paths, ho \in BOOLEAN, hl \in BOOLEAN :
      \E o \in (IF ho THEN PageOffsets ELSE {0}), l \in (IF hl THEN PageLimits ELSE {0}) :
         handleLoadMore(p, ho, o, hl, l)

\* The load-more handler alone, on files of 0..MaxPageLen lines.
PageSpec == PageInit /\ [][PageNext]_vars

\* ------------------------------------------------------------- requireAuth
\* No hub, no connection, no goroutine, no load-more request yet.
IdleServer ==
    /\ events = 0
    /\ streamers = [p \in Paths |-> NoHub]
    /\ hubPath = [h \in Hubs |-> NoPath]
    /\ clients = [h \in Hubs |-> <<>>]
    /\ mutex = [h \in Hubs |-> "free"]
    /\ pc = [c \in Conns |-> "idle"]
    /\ reqPath = [c \in Conns |-> NoPath]
    /\ hubOf = [c \in Conns |-> NoHub]
    /\ connState = [c \in Conns |-> "open"]
    /\ recv = [c \in Conns |-> <<>>]
    /\ snapPc = [c \in Conns |-> "none"]
    /\ snapN = [c \in Conns |-> -1]
    /\ snapI = [c \in Conns |-> 0]
    /\ loopPc = [h \in Hubs |-> "none"]
    /\ loopPos = [h \in Hubs |-> 0]
    /\ loopBuf = [h \in Hubs |-> <<>>]
    /\ bcastI = [h \in Hubs |-> 0]
    /\ loopMid = [h \in Hubs |-> FALSE]
    /\ crashed = FALSE
    /\ started = [h \in Hubs |-> 0]
    /\ passStart = [h \in Hubs |-> <<>>]
    /\ passLog = [h \in Hubs |-> <<>>]
    /\ pageReq = NoPage
    /\ pageOut = NoPage
    /\ control = NoControl

\* main: "/" -> handleIndex, "/ws" -> handleWebSocket,
\* "/api/loadmore" -> handleLoadMore, each wrapped in requireAuth.
Routes == {"index", "ws", "loadmore"}

\* The user names and passwords a request may carry.
Names == {"admin", "guest"}
Words == {"secret", "wrong"}

AuthConfigs == {[enabled |-> e, username |-> "admin", password |-> "secret"] : e \in BOOLEAN}

\* The password is not compared.
AuthPassesNameOnly(cfg, ok, username, password) ==
    ~cfg.enabled \/ (ok /\ username = cfg.username)

\* if !config.Auth.Enabled { handler(w, r); return }
\* username, password, ok := r.BasicAuth()
\* if !ok || username != config.Auth.Username || password != config.Auth.Password
\*   { 401; return }
\* handler(w, r)
AuthPasses(cfg, ok, username, password) ==
    ~cfg.enabled \/ ~(~ok \/ username # cfg.username \/ password # cfg.password)

\* The requests to a route that requireAuth handed to the handler.
Admitted(route) ==
    Cardinality({i \in 1..Len(authLog) : authLog[i].route = route /\ authLog[i].out = "handler"})

\* A request arrives at the wrapper of a route; ok tells whether it carries a
\* well-formed Basic Authorization header.
requireAuth(route, ok, username, password) ==
    /\ ~crashed
    /\ Len(authLog) < MaxAuthReqs
    /\ authLog' = Append(authLog,
          [route |-> route, ok |-> ok, username |-> username, password |-> password,
           out |-> IF AuthPasses(authCfg, ok, username, password) THEN "handler" ELSE "401"])
    /\ UNCHANGED <<authCfg, viewVars, pageVars, control, fileVars, hubVars, connVars, snapVars,
                   loopVars, crashed, histVars>>

AuthInit ==
    /\ fileLen = 1
    /\ filePartial = FALSE
    /\ IdleServer
    /\ authCfg \in AuthConfigs
    /\ authLog = <<>>
    /\ NoViewerPage

\* The wrapped handlers run when requireAuth calls them, once per request it
\* lets through; handleIndex changes nothing.
AuthNext ==
    \/ \E route \in Routes, ok \in BOOLEAN :
         \E username \in (IF ok THEN Names ELSE {""}), password \in (IF ok THEN Words ELSE {""}) :
            requireAuth(route, ok, username, password)
    \/ /\ Admitted("ws") > Cardinality({c \in Conns : pc[c] # "idle"})
       /\ \E c \in Conns, p \in Paths : Lookup(c, p)
    \/ /\ Admitted("loadmore") > 0
       /\ \E p \in Paths : handleLoadMore(p, FALSE, 0, FALSE, 0)
    \/ \E c \in Conns : NewLogStreamer(c)
    \/ \E c \in Conns : AddClient(c)

AuthSpec == AuthInit /\ [][AuthNext]_vars

\* ------------------------------------------------------------- viewer page
\* File lengths around 0 and around the snapshot limit plus 0, 1/2, 1, 3/2, ...
\* load-more steps.
ViewLens ==
    (0..SnapSlack) \cup
    UNION {((SnapshotLimit + (k * LoadMoreStep) \div 2) - SnapSlack)
              ..((SnapshotLimit + (k * LoadMoreStep) \div 2) + SnapSlack) : k \in 0..(2 * MaxLoads)}

\* data.lines.forEach(lineText => logs.insertBefore(line, logs.firstChild)):
\* each line goes above the ones inserted before it.
InsertEachFirst(lines, shown) == [i \in 1..Len(lines) |-> lines[Len(lines) + 1 - i]] \o shown

\* The page of a viewer of the "good" file after its snapshot and the
\* INITIAL_LOAD record: totalLines = parseInt(parts[2]), shownLines =
\* parseInt(parts[3]), the snapshot lines in the "logs" element.
ViewInit ==
    /\ fileLen \in ViewLens
    /\ filePartial = FALSE
    /\ IdleServer
    /\ GateOff
    /\ totalLines = fileLen
    /\ shownLines = fileLen - SnapStart(fileLen)
    /\ logs = [i \in 1..(fileLen - SnapStart(fileLen)) |-> SnapStart(fileLen) + i]
    /\ data = NoPage

\* loadMore(): if (shownLines >= totalLines) return; fetch(.../api/loadmore?
\* file=...&offset=(totalLines - shownLines - 100)&limit=100); then insert
\* data.lines and add their number to shownLines. The request is served by
\* handleLoadMore.
loadMore ==
    /\ ~(shownLines >= totalLines)
    /\ LET reply == LoadMoreResponse(fileLen, TRUE, totalLines - shownLines - LoadMoreStep,
                                     TRUE, LoadMoreStep)
       IN /\ data' = reply
          /\ logs' = InsertEachFirst(reply.lines, logs)
          /\ shownLines' = shownLines + Len(reply.lines)
    /\ UNCHANGED <<gateVars, pageVars, control, totalLines, fileVars, hubVars, connVars, snapVars,
                   loopVars, crashed, histVars>>

\* ws.onmessage for a live line, the next line of the file the page has not
\* seen: it goes to the bottom; shownLines++; totalLines++.
onmessage ==
    /\ totalLines < fileLen
    /\ logs' = Append(logs, totalLines + 1)
    /\ shownLines' = shownLines + 1
    /\ totalLines' = totalLines + 1
    /\ UNCHANGED <<gateVars, pageVars, control, data, fileVars, hubVars, connVars, snapVars,
                   loopVars, crashed, histVars>>

ViewNext ==
    \/ AppendLine
    \/ loadMore
    \/ onmessage

ViewSpec == ViewInit /\ [][ViewNext]_vars

\* ---------------------------------------------------------- snapshot alone
\* File lengths around 0 and around the snapshot limit.
SnapLens == (0..SnapSlack) \cup ((SnapshotLimit - SnapSlack)..(SnapshotLimit + SnapSlack))

\* Connection 1 has just been added to the hub of a log file of n lines whose
\* follow goroutine met the end of the file; its snapshot goroutine is about
\* to run.
SnapInit ==
    /\ fileLen \in SnapLens
    /\ filePartial = FALSE
    /\ events = 0
    /\ streamers = [p \in Paths |-> IF p = "good" THEN 1 ELSE NoHub]
    /\ hubPath = [h \in Hubs |-> IF h = 1 THEN "good" ELSE NoPath]
    /\ clients = [h \in Hubs |-> IF h = 1 THEN <<1>> ELSE <<>>]
    /\ mutex = [h \in Hubs |-> "free"]
    /\ pc = [c \in Conns |-> IF c = 1 THEN "serve" ELSE "idle"]
    /\ reqPath = [c \in Conns |-> IF c = 1 THEN "good" ELSE NoPath]
    /\ hubOf = [c \in Conns |-> IF c = 1 THEN 1 ELSE NoHub]
    /\ connState = [c \in Conns |-> "open"]
    /\ recv = [c \in Conns |-> <<>>]
    /\ snapPc = [c \in Conns |-> IF c = 1 THEN "open" ELSE "none"]
    /\ snapN = [c \in Conns |-> -1]
    /\ snapI = [c \in Conns |-> 0]
    /\ loopPc = [h \in Hubs |-> IF h = 1 THEN "done" ELSE "none"]
    /\ loopPos = [h \in Hubs |-> IF h = 1 THEN fileLen ELSE 0]
    /\ loopBuf = [h \in Hubs |-> <<>>]
    /\ bcastI = [h \in Hubs |-> 0]
    /\ loopMid = [h \in Hubs |-> FALSE]
    /\ crashed = FALSE
    /\ started = [h \in Hubs |-> IF h = 1 THEN 1 ELSE 0]
    /\ passStart = [h \in Hubs |-> <<>>]
    /\ passLog = [h \in Hubs |-> <<>>]
    /\ pageReq = NoPage
    /\ pageOut = NoPage
    /\ control = NoControl
    /\ GateOff
    /\ NoViewerPage

SnapNext ==
    \/ \E c \in Conns : SnapOpen(c)
    \/ \E c \in Conns : SnapSend(c)
    \/ \E c \in Conns : SnapMeta(c)

SnapSpec == SnapInit /\ [][SnapNext]_vars

\* ----------------------------------------------------------- broadcast alone
\* Every connection is a viewer of the one hub of the (still empty) log file:
\* each has received its snapshot, the follow goroutine has opened the file
\* and is about to scan.
BroadcastInit ==
    /\ fileLen = 0
    /\ filePartial = FALSE
    /\ events = 0
    /\ streamers = [p \in Paths |-> IF p = "good" THEN 1 ELSE NoHub]
    /\ hubPath = [h \in Hubs |-> IF h = 1 THEN "good" ELSE NoPath]
    /\ clients = [h \in Hubs |-> IF h = 1 THEN [i \in 1..NumConns |-> i] ELSE <<>>]
    /\ mutex = [h \in Hubs |-> "free"]
    /\ pc = [c \in Conns |-> "serve"]
    /\ reqPath = [c \in Conns |-> "good"]
    /\ hubOf = [c \in Conns |-> 1]
    /\ connState = [c \in Conns |-> "open"]
    /\ recv = [c \in Conns |-> <<MetaMsg(0, 0)>>]
    /\ snapPc = [c \in Conns |-> "done"]
    /\ snapN = [c \in Conns |-> 0]
    /\ snapI = [c \in Conns |-> 0]
    /\ loopPc = [h \in Hubs |-> IF h = 1 THEN "scan" ELSE "none"]
    /\ loopPos = [h \in Hubs |-> 0]
    /\ loopBuf = [h \in Hubs |-> <<>>]
    /\ bcastI = [h \in Hubs |-> 0]
    /\ loopMid = [h \in Hubs |-> FALSE]
    /\ crashed = FALSE
    /\ started = [h \in Hubs |-> IF h = 1 THEN 1 ELSE 0]
    /\ passStart = [h \in Hubs |-> <<>>]
    /\ passLog = [h \in Hubs |-> <<>>]
    /\ pageReq = NoPage
    /\ pageOut = NoPage
    /\ control = NoControl
    /\ GateOff
    /\ NoViewerPage

BroadcastNext ==
    \/ AppendLine
    \/ \E c \in Conns : PeerClose(c)
    \/ \E c \in Conns : RemoveClient(c)
    \/ \E h \in Hubs : LoopScan(h)
    \/ \E h \in Hubs : BroadcastEmpty(h)
    \/ \E h \in Hubs : BroadcastSend(h)

BroadcastSpec == BroadcastInit /\ [][BroadcastNext]_vars

\* ------------------------------------------------- broadcast to slow viewers
\* The same hub, with viewers that may stop reading. Every goroutine that can
\* take a step is scheduled in the end: the follow goroutine and the handlers
\* whose read failed. The peers and the writer of the log file owe nothing.
StallNext ==
    \/ BroadcastNext
    \/ \E c \in Conns : PeerStall(c)
    \/ \E h \in Hubs : BroadcastLock(h)

StallSpec ==
    /\ BroadcastInit
    /\ [][StallNext]_vars
    /\ \A h \in Hubs : WF_vars(LoopScan(h)) /\ WF_vars(BroadcastEmpty(h))
                        /\ WF_vars(BroadcastSend(h)) /\ WF_vars(BroadcastLock(h))
    /\ \A c \in Conns : WF_vars(RemoveClient(c))

\* ------------------------------------- viewers joining a hub that is running
\* The hub of the readable file with its follow goroutine past the seek and
\* waiting in scanner.Scan(); all viewers but the last are registered and have
\* had their snapshots, the handler of the last is about to call AddClient.
JoinInit ==
    /\ fileLen \in 0..MaxOldLines
    /\ filePartial = FALSE
    /\ events = 0
    /\ streamers = [p \in Paths |-> IF p = "good" THEN 1 ELSE NoHub]
    /\ hubPath = [h \in Hubs |-> IF h = 1 THEN "good" ELSE NoPath]
    /\ clients = [h \in Hubs |-> IF h = 1 THEN [i \in 1..(NumConns - 1) |-> i] ELSE <<>>]
    /\ mutex = [h \in Hubs |-> "free"]
    /\ pc = [c \in Conns |-> IF c < NumConns THEN "serve" ELSE "add"]
    /\ reqPath = [c \in Conns |-> "good"]
    /\ hubOf = [c \in Conns |-> 1]
    /\ connState = [c \in Conns |-> "open"]
    /\ recv = [c \in Conns |->
                 IF c < NumConns THEN [i \in 1..fileLen |-> SnapMsg(i)] \o <<MetaMsg(fileLen, fileLen)>>
                 ELSE <<>>]
    /\ snapPc = [c \in Conns |-> IF c < NumConns THEN "done" ELSE "none"]
    /\ snapN = [c \in Conns |-> IF c < NumConns THEN fileLen ELSE -1]
    /\ snapI = [c \in Conns |-> IF c < NumConns THEN fileLen ELSE 0]
    /\ loopPc = [h \in Hubs |-> IF h = 1 THEN "scan" ELSE "none"]
    /\ loopPos = [h \in Hubs |-> IF h = 1 THEN fileLen ELSE 0]
    /\ loopBuf = [h \in Hubs |-> <<>>]
    /\ bcastI = [h \in Hubs |-> 0]
    /\ loopMid = [h \in Hubs |-> FALSE]
    /\ crashed = FALSE
    /\ started = [h \in Hubs |-> IF h = 1 THEN 1 ELSE 0]
    /\ passStart = [h \in Hubs |-> <<>>]
    /\ passLog = [h \in Hubs |-> <<>>]
    /\ pageReq = NoPage
    /\ pageOut = NoPage
    /\ control = NoControl
    /\ GateOff
    /\ NoViewerPage

JoinNext ==
    \/ AppendLine
    \/ \E c \in Conns : PeerClose(c)
    \/ \E c \in Conns : PeerStall(c)
    \/ \E c \in Conns : AddClient(c)
    \/ \E c \in Conns : RemoveClient(c)
    \/ \E c \in Conns : SnapOpen(c)
    \/ \E c \in Conns : SnapSend(c)
    \/ \E c \in Conns : SnapMeta(c)
    \/ \E h \in Hubs : LoopScan(h)
    \/ \E h \in Hubs : BroadcastEmpty(h)
    \/ \E h \in Hubs : BroadcastSend(h)
    \/ \E h \in Hubs : BroadcastLock(h)

JoinSpec == JoinInit /\ [][JoinNext]_vars

\* ------------------------------------------ the follow goroutine from its start
\* The hub of the readable file whose follow goroutine has been spawned and has
\* not run yet; the file holds up to MaxOldLines lines and perhaps the
\* beginning of another; every viewer is registered and has had its snapshot.
FollowInit ==
    /\ fileLen \in 0..MaxOldLines
    /\ filePartial \in BOOLEAN
    /\ events = 0
    /\ streamers = [p \in Paths |-> IF p = "good" THEN 1 ELSE NoHub]
    /\ hubPath = [h \in Hubs |-> IF h = 1 THEN "good" ELSE NoPath]
    /\ clients = [h \in Hubs |-> IF h = 1 THEN [i \in 1..NumConns |-> i] ELSE <<>>]
    /\ mutex = [h \in Hubs |-> "free"]
    /\ pc = [c \in Conns |-> "serve"]
    /\ reqPath = [c \in Conns |-> "good"]
    /\ hubOf = [c \in Conns |-> 1]
    /\ connState = [c \in Conns |-> "open"]
    /\ recv = [c \in Conns |->
                 [i \in 1..fileLen |-> SnapMsg(i)] \o <<MetaMsg(fileLen, fileLen)>>]
    /\ snapPc = [c \in Conns |-> "done"]
    /\ snapN = [c \in Conns |-> fileLen]
    /\ snapI = [c \in Conns |-> fileLen]
    /\ loopPc = [h \in Hubs |-> IF h = 1 THEN "open" ELSE "none"]
    /\ loopPos = [h \in Hubs |-> 0]
    /\ loopBuf = [h \in Hubs |-> <<>>]
    /\ bcastI = [h \in Hubs |-> 0]
    /\ loopMid = [h \in Hubs |-> FALSE]
    /\ crashed = FALSE
    /\ started = [h \in Hubs |-> 0]
    /\ passStart = [h \in Hubs |-> <<>>]
    /\ passLog = [h \in Hubs |-> <<>>]
    /\ pageReq = NoPage
    /\ pageOut = NoPage
    /\ control = NoControl
    /\ GateOff
    /\ NoViewerPage

FollowNext ==
    \/ AppendLine
    \/ AppendPartial
    \/ \E h \in Hubs : LoopOpen(h)
    \/ \E h \in Hubs : LoopScan(h)
    \/ \E h \in Hubs : BroadcastSend(h)

FollowSpec == FollowInit /\ [][FollowNext]_vars

\* ------------------------------------------------------------------ two hubs
\* Hub 1 follows the readable file and has all viewers but viewer 2; hub 2 has
\* just been made by the handler of viewer 2, which is about to call AddClient: for another
\* file (one that cannot be read), or for the same file when both handlers
\* missed each other's entry in the registry.
TwoHubInit ==
    /\ fileLen = 0
    /\ filePartial = FALSE
    /\ events = 0
    /\ hubPath \in {[h \in Hubs |-> IF h = 1 THEN "good" ELSE IF h = 2 THEN p ELSE NoPath] :
                      p \in {"good", "locked"}}
    /\ streamers = [p \in Paths |-> IF hubPath[2] = p THEN 2
                                      ELSE IF hubPath[1] = p THEN 1 ELSE NoHub]
    /\ clients = [h \in Hubs |-> IF h = 1 THEN SelectSeq([i \in 1..NumConns |-> i], LAMBDA c : c # 2)
                                   ELSE <<>>]
    /\ mutex = [h \in Hubs |-> "free"]
    /\ pc = [c \in Conns |-> IF c # 2 THEN "serve" ELSE "add"]
    /\ reqPath = [c \in Conns |-> IF c # 2 THEN "good" ELSE hubPath[2]]
    /\ hubOf = [c \in Conns |-> IF c # 2 THEN 1 ELSE 2]
    /\ connState = [c \in Conns |-> "open"]
    /\ recv = [c \in Conns |-> IF c # 2 THEN <<MetaMsg(0, 0)>> ELSE <<>>]
    /\ snapPc = [c \in Conns |-> IF c # 2 THEN "done" ELSE "none"]
    /\ snapN = [c \in Conns |-> IF c # 2 THEN 0 ELSE -1]
    /\ snapI = [c \in Conns |-> 0]
    /\ loopPc = [h \in Hubs |-> IF h = 1 THEN "scan" ELSE IF h = 2 THEN "open" ELSE "none"]
    /\ loopPos = [h \in Hubs |-> 0]
    /\ loopBuf = [h \in Hubs |-> <<>>]
    /\ bcastI = [h \in Hubs |-> 0]
    /\ loopMid = [h \in Hubs |-> FALSE]
    /\ crashed = FALSE
    /\ started = [h \in Hubs |-> IF h = 1 THEN 1 ELSE 0]
    /\ passStart = [h \in Hubs |-> <<>>]
    /\ passLog = [h \in Hubs |-> <<>>]
    /\ pageReq = NoPage
    /\ pageOut = NoPage
    /\ control = NoControl
    /\ GateOff
    /\ NoViewerPage

TwoHubNext ==
    \/ AppendLine
    \/ \E c \in Conns : PeerClose(c)
    \/ \E c \in Conns : PeerStall(c)
    \/ \E c \in Conns : AddClient(c)
    \/ \E c \in Conns : RemoveClient(c)
    \/ \E c \in Conns : SnapOpen(c)
    \/ \E c \in Conns : SnapSend(c)
    \/ \E c \in Conns : SnapMeta(c)
    \/ \E h \in Hubs : LoopOpen(h)
    \/ \E h \in Hubs : LoopScan(h)
    \/ \E h \in Hubs : BroadcastEmpty(h)
    \/ \E h \in Hubs : BroadcastSend(h)
    \/ \E h \in Hubs : BroadcastLock(h)

TwoHubSpec == TwoHubInit /\ [][TwoHubNext]_vars

\* ----------------------------------------- the page script and message texts
\* The text of a message as its pieces between colons: "a:b" is <<"a", "b">>.
\* Texts a log file may hold and the server sends as they are.
LineTexts ==
    { <<"hello">>, <<"a", "b">>,
      <<"__META__", "INITIAL_LOAD", "2", "1">>,
      <<"__META__", "INITIAL_LOAD">>,
      <<"__META__", "LOAD_MORE_RESPONSE", "2">>,
      <<"__META__", "OTHER">>,
      <<"__META__">>,
      <<"__HISTORICAL__", "hello">>,
      <<"__HISTORICAL__">> }

\* fmt.Sprintf("%d", n)
Decimal(n) == <<"0", "1", "2", "3", "4", "5", "6", "7", "8", "9">>[n + 1]

\* JavaScript's NaN.
NaN == -1

\* parseInt(s); parseInt(undefined) is NaN.
ParseInt(s) ==
    IF \E n \in 0..9 : Decimal(n) = s THEN CHOOSE n \in 0..9 : Decimal(n) = s ELSE NaN

\* x++ in the script: NaN stays NaN.
PlusPlus(x) == IF x = NaN THEN NaN ELSE x + 1

\* parts[i] of data.split(':') (0-based in the script, 1-based here).
Part(parts, i) == IF i <= Len(parts) THEN parts[i] ELSE "undefined"

\* data.startsWith(prefix + ':')
StartsWith(parts, prefix) == Len(parts) >= 2 /\ parts[1] = prefix

\* fmt.Sprintf("__META__:INITIAL_LOAD:%d:%d", totalLines, shownLines)
MetaText(total, shown) == <<"__META__", "INITIAL_LOAD", Decimal(total), Decimal(shown)>>

\* ws.onmessage for a message with the text t, which the server sent as a log
\* line or as a metadata record (sentAs); data records what the script took
\* it for.
onmessageText(t, sentAs) ==
    /\ events < MaxEvents
    /\ events' = events + 1
    /\ IF StartsWith(t, "__META__") /\ Part(t, 2) = "INITIAL_LOAD"
       THEN /\ totalLines' = ParseInt(Part(t, 3))
            /\ shownLines' = ParseInt(Part(t, 4))
            /\ data' = [sent |-> sentAs, text |-> t, taken |-> "meta"]
            /\ UNCHANGED logs
       ELSE IF StartsWith(t, "__META__") /\ Part(t, 2) = "LOAD_MORE_RESPONSE"
       THEN /\ totalLines' = ParseInt(Part(t, 3))
            /\ data' = [sent |-> sentAs, text |-> t, taken |-> "meta"]
            /\ UNCHANGED <<shownLines, logs>>
       ELSE IF ~StartsWith(t, "__HISTORICAL__")
       THEN /\ logs' = Append(logs, t)
            /\ shownLines' = PlusPlus(shownLines)
            /\ totalLines' = PlusPlus(totalLines)
            /\ data' = [sent |-> sentAs, text |-> t, taken |-> "line"]
       ELSE /\ logs' = <<Tail(t)>> \o logs
            /\ shownLines' = PlusPlus(shownLines)
            /\ data' = [sent |-> sentAs, text |-> t, taken |-> "historical"]
            /\ UNCHANGED totalLines
    /\ UNCHANGED <<gateVars, pageVars, control, fileLen, filePartial, hubVars, connVars, snapVars,
                   loopVars, crashed, histVars>>

\* conn.WriteMessage(TextMessage, []byte(line)) in AddClient's snapshot loop
\* and client.WriteMessage(TextMessage, []byte(message)) in Broadcast: the
\* line goes out as it is in the file.
SendLine(t) == onmessageText(t, "line")

\* The INITIAL_LOAD record after a snapshot of shown lines out of total.
SendMeta(total, shown) == onmessageText(MetaText(total, shown), "meta")

ClassifyInit ==
    /\ fileLen = 0
    /\ filePartial = FALSE
    /\ IdleServer
    /\ GateOff
    /\ NoViewerPage

ClassifyNext ==
    \/ \E t \in LineTexts : SendLine(t)
    \/ \E total \in 0..MaxPageLen : \E shown \in 0..total : SendMeta(total, shown)

\* The page script receiving log lines of any content and metadata records.
ClassifySpec == ClassifyInit /\ [][ClassifyNext]_vars

\* The tasks that take a hub's lock, and what makes them want it (the snapshot
\* goroutines take no lock and are left out).
LockNext ==
    \/ AppendLine
    \/ \E c \in Conns : PeerClose(c)
    \/ \E c \in Conns : PeerStall(c)
    \/ \E c \in Conns : AddClient(c)
    \/ \E c \in Conns : RemoveClient(c)
    \/ \E h \in Hubs : LoopScan(h)
    \/ \E h \in Hubs : BroadcastEmpty(h)
    \/ \E h \in Hubs : BroadcastSend(h)
    \/ \E h \in Hubs : BroadcastLock(h)

\* The lock users with the scheduling the Go runtime gives: a goroutine that
\* can take a step, and a goroutine waiting in ls.mutex.Lock() for a mutex
\* that stays free, eventually runs.
LockSpec ==
    /\ JoinInit
    /\ [][LockNext]_vars
    /\ \A h \in Hubs : WF_vars(LoopScan(h)) /\ WF_vars(BroadcastEmpty(h))
                        /\ WF_vars(BroadcastSend(h)) /\ WF_vars(BroadcastLock(h))
    /\ \A c \in Conns : WF_vars(AddClient(c)) /\ WF_vars(RemoveClient(c))

\* --------------------------------------- control messages from the viewer
\* Messages a viewer's peer may send over its socket.
ControlMessages == {"LOAD_MORE", "LOAD_MORE ", "load_more"}

\* A test that takes any message beginning with LOAD_MORE.
IsLoadMorePrefix(m) == m \in {"LOAD_MORE", "LOAD_MORE "}

\* if string(message) == "LOAD_MORE"
IsLoadMore(m) == m = "LOAD_MORE"

\* conn.ReadMessage() returns message m: for "LOAD_MORE" the handler starts a
\* goroutine, other messages it drops; then it reads again.
ControlMessage(c, m) ==
    /\ ~crashed
    /\ pc[c] = "serve"
    /\ connState[c] \in {"open", "stalled"}
    /\ events < MaxEvents
    /\ events' = events + 1
    /\ control' = [control EXCEPT ![c] =
                     Append(@, [msg |-> m,
                                state |-> IF IsLoadMore(m) THEN "pending" ELSE "ignored"])]
    /\ UNCHANGED <<gateVars, viewVars, pageVars, fileLen, filePartial, hubVars, connVars,
                   snapVars, loopVars, crashed, histVars>>

\* The goroutine started for the i-th message of connection c: os.Open (on an
\* error return); read all lines; conn.WriteMessage of the LOAD_MORE_RESPONSE
\* record with len(lines) (the error of WriteMessage is dropped).
LoadMoreTask(c, i) ==
    /\ ~crashed
    /\ i \in 1..Len(control[c])
    /\ control[c][i].state = "pending"
    /\ IF PathKind(reqPath[c]) = "ok"
       THEN \E ok \in WriteOutcomes(connState[c]) :
              /\ recv' = [recv EXCEPT ![c] = Deliver(c, ok, LoadMoreMetaMsg(fileLen))]
              /\ connState' = [connState EXCEPT ![c] = AfterWrite(@, ok)]
       ELSE UNCHANGED <<recv, connState>>
    /\ control' = [control EXCEPT ![c][i].state = "done"]
    /\ UNCHANGED <<gateVars, viewVars, pageVars, fileVars, hubVars, pc, reqPath, hubOf,
                   snapVars, loopVars, crashed, histVars>>

\* Every viewer is registered with hub 1 and has had its snapshot; the hub's
\* file is the readable one, with the follow goroutine waiting in Scan, or one
\* that cannot be opened, for which the goroutines have returned.
ControlInit ==
    /\ fileLen = 0
    /\ filePartial = FALSE
    /\ events = 0
    /\ hubPath \in {[h \in Hubs |-> IF h = 1 THEN p ELSE NoPath] : p \in {"good", "locked"}}
    /\ streamers = [p \in Paths |-> IF p = hubPath[1] THEN 1 ELSE NoHub]
    /\ clients = [h \in Hubs |-> IF h = 1 THEN [i \in 1..NumConns |-> i] ELSE <<>>]
    /\ mutex = [h \in Hubs |-> "free"]
    /\ pc = [c \in Conns |-> "serve"]
    /\ reqPath = [c \in Conns |-> hubPath[1]]
    /\ hubOf = [c \in Conns |-> 1]
    /\ connState = [c \in Conns |-> "open"]
    /\ recv = [c \in Conns |-> IF hubPath[1] = "good" THEN <<MetaMsg(0, 0)>> ELSE <<>>]
    /\ snapPc = [c \in Conns |-> "done"]
    /\ snapN = [c \in Conns |-> IF hubPath[1] = "good" THEN 0 ELSE -1]
    /\ snapI = [c \in Conns |-> 0]
    /\ loopPc = [h \in Hubs |-> IF h # 1 THEN "none"
                                 ELSE IF hubPath[1] = "good" THEN "scan" ELSE "done"]
    /\ loopPos = [h \in Hubs |-> 0]
    /\ loopBuf = [h \in Hubs |-> <<>>]
    /\ bcastI = [h \in Hubs |-> 0]
    /\ loopMid = [h \in Hubs |-> FALSE]
    /\ crashed = FALSE
    /\ started = [h \in Hubs |-> IF h = 1 THEN 1 ELSE 0]
    /\ passStart = [h \in Hubs |-> <<>>]
    /\ passLog = [h \in Hubs |-> <<>>]
    /\ pageReq = NoPage
    /\ pageOut = NoPage
    /\ control = NoControl
    /\ GateOff
    /\ NoViewerPage

ControlNext ==
    \/ AppendLine
    \/ \E c \in Conns : PeerClose(c)
    \/ \E c \in Conns : RemoveClient(c)
    \/ \E h \in Hubs : LoopScan(h)
    \/ \E h \in Hubs : BroadcastEmpty(h)
    \/ \E h \in Hubs : BroadcastSend(h)
    \/ \E c \in Conns, m \in ControlMessages : ControlMessage(c, m)
    \/ \E c \in Conns, i \in 1..MaxEvents : LoadMoreTask(c, i)

ControlSpec == ControlInit /\ [][ControlNext]_vars


\* ================================================================== claims
\* What a viewer's received sequence shows for each kind of message.
SnapLineSeen(i) == [k |-> "snap", a |-> i, b |-> 0]
LiveLineSeen(i) == [k |-> "live", a |-> i, b |-> 0]
MetaSeen(total, shown) == [k |-> "meta", a |-> total, b |-> shown]
ErrorSeen == [k |-> "error", a |-> 0, b |-> 0]

Range(s) == {s[i] : i \in 1..Len(s)}

RECURSIVE Filter(_, _)
Filter(s, kind) ==
    IF s = <<>> THEN <<>>
    ELSE IF Head(s).k = kind THEN <<Head(s)>> \o Filter(Tail(s), kind)
    ELSE Filter(Tail(s), kind)

IsPrefix(s, t) == Len(s) <= Len(t) /\ s = SubSeq(t, 1, Len(s))

LiveOf(c) == Filter(recv[c], "live")

\* The messages of the snapshot goroutine among those c received.
SnapshotOf(c) ==
    LET Own(m) == m.k \in {"snap", "meta"} IN SelectSeq(recv[c], Own)

\* The live lines c received that lie beyond the lines its snapshot read.
\* AddClient appends c to the set before the snapshot goroutine reads the
\* file, so each of these lines was appended after c was registered.
LiveBeyondSnapshot(c) ==
    LET Beyond(m) == m.k = "live" /\ m.a > snapN[c] IN SelectSeq(recv[c], Beyond)

\* C1: once the follow goroutine of a viewer's hub has nothing more to do, a
\* registered viewer without transport failure has been sent, by live
\* broadcast, exactly the lines appended after it registered, in append order,
\* each once. (The follow goroutine's "done" is final, so eventual delivery
\* needs delivery by then.)
C1_AppendedLinesDelivered ==
    \A c \in Conns :
        ( /\ ~crashed
          /\ pc[c] = "serve" /\ connState[c] = "open"
          /\ snapN[c] >= 0
          /\ loopPc[hubOf[c]] = "done" )
        => LiveBeyondSnapshot(c) = [k \in 1..(fileLen - snapN[c]) |-> LiveLineSeen(snapN[c] + k)]

\* C2: the live lines a viewer receives are in file-append order: a line never
\* arrives after a line appended later, and none arrives twice.
C2_LiveFifo ==
    \A c \in Conns :
        \A i, j \in 1..Len(LiveOf(c)) : i < j => LiveOf(c)[i].a < LiveOf(c)[j].a

C2_Witness == \E c \in Conns : Len(LiveOf(c)) >= 2

C5_LiveOnlyAfterMeta ==
    \A c \in Conns :
        \A i \in 1..Len(recv[c]) :
            recv[c][i].k = "live" => \E j \in 1..(i - 1) : recv[c][j].k = "meta"

\* C5 as amended: whatever live lines arrive in between, the snapshot lines
\* reach the viewer in file order and the metadata record after all of them.
C5_SnapshotThenMeta ==
    \A c \in Conns :
        IF snapN[c] < 0 THEN SnapshotOf(c) = <<>>
        ELSE snapN[c] <= 200 =>
             IsPrefix(SnapshotOf(c),
                      [i \in 1..snapN[c] |-> SnapLineSeen(i)] \o <<MetaSeen(snapN[c], snapN[c])>>)

\* A live line arrived before a snapshot line, and the record came last.
C5_Witness ==
    \E c \in Conns :
        /\ Len(recv[c]) >= 3
        /\ recv[c][1].k = "live"
        /\ \E j \in 2..Len(recv[c]) : recv[c][j].k = "snap"
        /\ recv[c][Len(recv[c])].k = "meta"

\* C6: two viewers that asked for the same path are registered in the same
\* hub, the only hub built for the path, and one follow goroutine runs for it.
C6_OneHubPerPath ==
    \A c1, c2 \in Conns :
        (c1 # c2 /\ pc[c1] = "serve" /\ pc[c2] = "serve" /\ reqPath[c1] = reqPath[c2])
        => /\ hubOf[c1] = hubOf[c2]
           /\ Cardinality({h \in Hubs : hubPath[h] = reqPath[c1]}) = 1
           /\ Cardinality({h \in Hubs : hubPath[h] = reqPath[c1] /\ loopPc[h] # "none"}) = 1

Reverse(s) == [i \in 1..Len(s) |-> s[Len(s) + 1 - i]]

FailedInPass(h) == {passLog[h][k][1] : k \in {x \in 1..Len(passLog[h]) : ~passLog[h][x][2]}}

\* C7: a broadcast pass writes to every viewer that was registered when it
\* began, once each, whatever writes fail; a viewer whose write failed is
\* closed and out of the set when the pass ends, and during the pass the set is
\* the set at its start without the viewers that failed.
C7_BroadcastPass ==
    \A h \in Hubs :
        /\ Len(passLog[h]) <= Len(passStart[h])
        /\ \A k \in 1..Len(passLog[h]) : passLog[h][k][1] = Reverse(passStart[h])[k]
        /\ \A c \in FailedInPass(h) : connState[c] = "closed" /\ c \notin Range(clients[h])
        /\ loopPc[h] = "send" =>
              LET Kept(c) == c \notin FailedInPass(h)
              IN clients[h] = SelectSeq(passStart[h], Kept)
        /\ (loopPc[h] # "send" /\ passLog[h] # <<>>) => Len(passLog[h]) = Len(passStart[h])

\* A pass over two viewers ended: the first write failed, the second succeeded.
C7_Witness ==
    \E h \in Hubs :
        /\ loopPc[h] # "send"
        /\ Len(passLog[h]) >= 2
        /\ ~passLog[h][1][2]
        /\ passLog[h][2][2]

\* C8: a viewer that asked for a path that does not exist or cannot be read is
\* told so at once, and the path gets no registry entry, no hub, no follow
\* goroutine, and the viewer is in no viewer set.
C8_NoStateOnOpenFailure ==
    \A c \in Conns :
        (pc[c] \in {"add", "serve", "done"} /\ PathKind(reqPath[c]) # "ok")
        => /\ ErrorSeen \in Range(recv[c])
           /\ streamers[reqPath[c]] = NoHub
           /\ \A h \in Hubs : hubPath[h] # reqPath[c] /\ c \notin Range(clients[h])

Max(a, b) == IF a > b THEN a ELSE b
Min(a, b) == IF a < b THEN a ELSE b

\* C9: the window is lines[s .. e) with s = max(offset, 0) and
\* e = min(s + limit, total), and the total is the file's line count.
C9_WindowIsClampedSlice ==
    (pageOut # NoPage /\ pageOut.status = 200) =>
        LET offset == IF pageReq.hasOffset THEN pageReq.offset ELSE 0
            limit == IF pageReq.hasLimit THEN pageReq.limit ELSE DefaultLimit
            ss == Max(offset, 0)
            ee == Min(ss + limit, fileLen)
        IN pageOut.lines = Window(ss, ee) /\ pageOut.total = fileLen

\* C10: the follow goroutine of a hub begins at most once, and exactly once
\* as soon as it has run; a hub that was never built has none; a viewer that
\* found the hub in the registry built no hub and started no goroutine.
C10_FollowLoopOnce ==
    /\ \A h \in Hubs :
          /\ started[h] <= 1
          /\ loopPc[h] = "none" <=> hubPath[h] = NoPath
          /\ loopPc[h] \in {"none", "open"} <=> started[h] = 0
    /\ \A c \in Conns :
          (pc[c] \in {"add", "serve", "done"} /\ hubOf[c] \notin {c, NoHub})
          => hubPath[c] = NoPath /\ started[c] = 0

\* The second viewer joined the first viewer's hub after its follow goroutine
\* had ended.
C10_Witness ==
    /\ pc[2] = "serve" /\ hubOf[2] = 1
    /\ loopPc[1] = "done" /\ started[1] = 1

\* C11: unregistering a viewer that is no longer in the set (a failed
\* broadcast write took it out) leaves every viewer set as it was and the
\* process running; and after any unregistration, unregistering the same
\* viewer again would change nothing.
C11_UnregisterIdempotent ==
    [][\A c \in Conns :
          (pc[c] = "serve" /\ pc'[c] = "done") =>
              /\ RemoveFirst(clients'[hubOf[c]], c) = clients'[hubOf[c]]
              /\ c \notin Range(clients[hubOf[c]]) =>
                    (clients' = clients /\ crashed' = crashed)]_vars

\* The handler of a viewer that a failed broadcast write had removed has
\* unregistered it, while another viewer is still registered.
C11_Witness ==
    \E c \in Conns : \E h \in Hubs :
        /\ pc[c] = "done" /\ hubOf[c] = h
        /\ c \in FailedInPass(h)
        /\ clients[h] # <<>>

\* C12: while a broadcast pass holds the hub, no unregistration gets in: the
\* index stays inside the viewer list, the viewers still to visit are the ones
\* that were ahead when the pass began (none skipped, none visited twice), and
\* when the pass is over every viewer of its start that is still registered
\* was sent the line.
C12_UnregisterDuringPass ==
    \A h \in Hubs :
        /\ loopPc[h] = "send" =>
              /\ bcastI[h] \in 1..Len(clients[h])
              /\ SubSeq(clients[h], 1, bcastI[h]) = SubSeq(passStart[h], 1, bcastI[h])
              /\ Len(passLog[h]) + bcastI[h] = Len(passStart[h])
        /\ \A j, k \in 1..Len(passLog[h]) : j # k => passLog[h][j][1] # passLog[h][k][1]
        /\ loopPc[h] # "send" =>
              \A c \in Range(clients[h]) \cap Range(passStart[h]) :
                  <<c, TRUE>> \in Range(passLog[h])

\* A pass is under way and the handler of a viewer it has not reached yet is
\* waiting to unregister it (its read failed: the peer left).
C12_Witness ==
    \E h \in Hubs : \E c \in Conns :
        /\ loopPc[h] = "send"
        /\ pc[c] = "serve" /\ hubOf[c] = h /\ connState[c] = "peergone"
        /\ IndexOf(clients[h], c, 1) \in 1..bcastI[h]

\* C13: the follow goroutine of a hub whose file can be read never ends.
C13_FollowLoopNeverEnds ==
    \A h \in Hubs :
        (hubPath[h] # NoPath /\ PathKind(hubPath[h]) = "ok") => loopPc[h] # "done"

\* C15: a viewer to which a write has failed is in no viewer set.
C15_FailedWriteRemoves ==
    \A c \in Conns : \A h \in Hubs :
        connState[c] = "broken" => c \notin Range(clients[h])

\* C18: a line that the follow goroutine is about to broadcast reaches every
\* registered viewer whose connection stays open, whatever the other viewers
\* of the hub do.
C18_OthersStillSent ==
    \A h \in Hubs : \A c \in Conns : \A n \in 1..MaxEvents :
        (loopBuf[h] # <<>> /\ Head(loopBuf[h]) = n /\ c \in Range(clients[h])
            /\ connState[c] = "open")
        ~> (LiveLineSeen(n) \in Range(recv[c]) \/ connState[c] # "open")

\* C14: nothing orders the snapshot read against the live broadcasts, so a
\* line can reach a viewer both in its snapshot and live (the witness); the
\* live lines of a viewer are a run of consecutive lines of the file, so an
\* overlap or a gap lies only where the snapshot meets the live run.
C14_LiveRunConsecutive ==
    \A c \in Conns :
        \A i \in 1..(Len(LiveOf(c)) - 1) : LiveOf(c)[i + 1].a = LiveOf(c)[i].a + 1

\* A viewer received one line twice: in its snapshot and as a live broadcast.
C14_Witness ==
    \E c \in Conns : \E x \in 1..MaxEvents :
        /\ SnapLineSeen(x) \in Range(recv[c])
        /\ LiveLineSeen(x) \in Range(recv[c])

\* C16: a load-more request changes nothing of the registry, the hubs, their
\* viewer sets, the connections or the follow goroutines, whether or not the
\* path has a hub; a file that can be opened is served with its line count,
\* one that cannot gets an error without a window.
C16_LoadMoreBypassesHub ==
    [][pageOut' # pageOut =>
          /\ UNCHANGED <<fileVars, hubVars, connVars, snapVars, loopVars, crashed, histVars>>
          /\ IF PathKind(pageReq'.path) = "ok"
             THEN pageOut'.status = 200 /\ pageOut'.total = fileLen
             ELSE pageOut'.status = 500 /\ pageOut'.lines = <<>>]_vars

\* Lines were served for a path that has no hub.
C16_Witness ==
    /\ pageOut # NoPage
    /\ pageOut.status = 200 /\ pageOut.lines # <<>>
    /\ streamers[pageReq.path] = NoHub

\* C17: a registry entry, once made, is never removed or replaced.
C17_RegistryEntryStable ==
    [][\A p \in Paths : streamers[p] # NoHub => streamers'[p] = streamers[p]]_vars

\* C19: requireAuth calls the handler exactly for the requests that carry the
\* configured user name and password, or for all when authentication is off,
\* and answers 401 otherwise; handlers run only for requests it let through,
\* so without one there is no hub, no viewer and no load-more reply.
C19_AuthGate ==
    /\ \A i \in 1..Len(authLog) :
          LET r == authLog[i] IN
          /\ r.out \in {"handler", "401"}
          /\ r.out = "handler" <=>
                \/ ~authCfg.enabled
                \/ (r.ok /\ r.username = authCfg.username /\ r.password = authCfg.password)
    /\ Cardinality({c \in Conns : pc[c] # "idle"}) <= Admitted("ws")
    /\ pageOut # NoPage => Admitted("loadmore") > 0
    /\ (\A i \in 1..Len(authLog) : authLog[i].out = "401") =>
          /\ streamers = [p \in Paths |-> NoHub]
          /\ hubPath = [h \in Hubs |-> NoPath]
          /\ clients = [h \in Hubs |-> <<>>]
          /\ pageOut = NoPage

\* With authentication on, a request with a wrong password was answered 401
\* and one with the configured credentials got a viewer registered.
C19_Witness ==
    /\ authCfg.enabled
    /\ \E i \in 1..Len(authLog) :
          /\ authLog[i].out = "401"
          /\ authLog[i].ok /\ authLog[i].username = authCfg.username
    /\ \E i \in 1..Len(authLog) : authLog[i].out = "handler" /\ authLog[i].route = "ws"
    /\ \E h \in Hubs : clients[h] # <<>>

\* The lines the page showed before the last load-more reply was inserted
\* (and the live lines that came after it).
ShownBefore == SubSeq(logs, Len(data.lines) + 1, Len(logs))

Least(S) == CHOOSE x \in S : \A y \in S : x <= y

\* C20: the lines of a load-more reply are older than every line the page
\* showed: they are the (up to 100) lines just before the oldest one shown.
C20_LoadMoreOnlyOlder ==
    data # NoPage =>
        LET oldest == Least(Range(ShownBefore))
        IN data.lines = Window(Max(oldest - 1 - LoadMoreStep, 0), oldest - 1)

\* The viewers registered with hub h.
Registered(h) == Range(clients[h])

\* C21: the step that ends a hub's follow loop leaves the viewer set, the
\* connections and what the viewers received as they were, and once ended the
\* loop is not started again and no viewer of the hub gets another live line.
C21_LoopEndsQuietly ==
    [][\A h \in Hubs :
          /\ (loopPc[h] # "done" /\ loopPc'[h] = "done") =>
                UNCHANGED <<clients, connState, recv, pc>>
          /\ loopPc[h] = "done" =>
                /\ loopPc'[h] = "done"
                /\ started'[h] = started[h]
                /\ \A c \in Registered(h) :
                      \/ recv'[c] = recv[c]
                      \/ recv'[c][Len(recv'[c])].k \notin {"live", "part", "error"}]_vars

\* A follow loop has ended after sending a live line, and its viewer is still
\* registered with an open connection.
C21_Witness ==
    \E h \in Hubs :
        /\ loopPc[h] = "done"
        /\ \E c \in Registered(h) :
              /\ connState[c] = "open" /\ pc[c] = "serve"
              /\ \E i \in 1..Len(recv[c]) : recv[c][i] = LiveLineSeen(recv[c][i].a)

\* C22: from the first to the last step of a broadcast pass of a hub, only
\* the pass changes the hub's viewer set: no register or unregister of that
\* hub takes place in between, and each of the two is a single step.
C22_ViewerSetExclusive ==
    [][\A h \in Hubs :
          loopPc[h] = "send" =>
             /\ clients'[h] # clients[h] => passLog'[h] # passLog[h]
             /\ \A c \in Conns :
                   (hubOf[c] = h /\ pc'[c] # pc[c]) => pc'[c] \notin {"serve", "done"}]_vars

\* A pass is under way (it waits in a write) while one handler is about to
\* register a viewer with the hub and another to unregister one.
C22_Witness ==
    \E h \in Hubs : \E c, d \in Conns :
        /\ loopPc[h] = "send"
        /\ hubOf[c] = h /\ pc[c] = "add"
        /\ hubOf[d] = h /\ pc[d] = "serve" /\ ReadFails(connState[d])

\* C23: once a viewer's handler has unregistered it, the viewer is in no
\* hub's set, no pass writes to it and it receives nothing more.
C23_NoSendAfterUnregister ==
    [][\A c \in Conns :
          pc[c] = "done" =>
             /\ recv'[c] = recv[c]
             /\ \A h \in Hubs :
                   /\ c \notin Range(clients'[h])
                   /\ passLog'[h] # passLog[h] =>
                         passLog'[h][Len(passLog'[h])][1] # c]_vars

\* A viewer that had received a live line was unregistered by its handler,
\* and a pass of its hub that began after that has written to another viewer.
C23_Witness ==
    \E c \in Conns :
        /\ pc[c] = "done"
        /\ \E i \in 1..Len(recv[c]) : recv[c][i] = LiveLineSeen(recv[c][i].a)
        /\ passLog[hubOf[c]] # <<>>
        /\ c \notin Range(passStart[hubOf[c]])

\* The offset of a request brought into 0..total.
ClampedOffset(req, total) ==
    LET o == IF req.hasOffset THEN req.offset ELSE 0
    IN Max(0, Min(o, total))

\* C26: the offset a load-more reply reports is the requested one brought
\* into 0..total, and the lines of the reply end at or before the last line.
C26_OffsetClamped ==
    (pageOut # NoPage /\ pageOut.status = 200) =>
        /\ pageOut.offset = ClampedOffset(pageReq, pageOut.total)
        /\ \A i \in 1..Len(pageOut.lines) : pageOut.lines[i] <= pageOut.total

\* What a viewer's received sequence shows for a fragment of line i sent by
\* the follow loop.
FragmentSeen(i) == [k |-> "part", a |-> i, b |-> 0]

\* C24: no viewer receives from the follow loop a piece of a line.
C24_OnlyWholeLines ==
    \A c \in Conns : \A i \in 1..Len(recv[c]) : recv[c][i] # FragmentSeen(recv[c][i].a)

\* The lines the file held before any line was appended (FollowSpec counts
\* appended lines only).
OldLines == fileLen - events

\* C25: the follow goroutine's seek puts it after every line the file holds
\* at that time, it never moves backwards, the lines it buffers lie behind its
\* position, and so no viewer gets as a live line (or fragment) a line that
\* was in the file before the goroutine began.
C25_OnlyAppendedLines ==
    /\ [](\A c \in Conns : \A i \in 1..Len(recv[c]) :
             recv[c][i] \in {LiveLineSeen(recv[c][i].a), FragmentSeen(recv[c][i].a)}
                => recv[c][i].a > OldLines)
    /\ [][\A h \in Hubs :
            /\ (loopPc[h] = "open" /\ loopPc'[h] = "scan") =>
                   loopPos'[h] = fileLen /\ loopBuf'[h] = <<>>
            /\ loopPc[h] \notin {"none", "open"} => loopPos'[h] >= loopPos[h]
            /\ loopBuf'[h] # loopBuf[h] =>
                   \A j \in 1..Len(loopBuf'[h]) :
                       \/ loopBuf'[h][j] > loopPos[h]
                       \/ -loopBuf'[h][j] > loopPos[h]
                       \/ loopBuf'[h][j] \in Range(loopBuf[h])]_vars

\* The file held a line before the follow goroutine began, and a viewer has
\* received a live line.
C25_Witness ==
    /\ OldLines >= 1
    /\ \E c \in Conns : \E i \in 1..Len(recv[c]) : recv[c][i] = LiveLineSeen(recv[c][i].a)

\* C28: whether a register, an unregister or a broadcast pass of a hub can
\* take its step depends on that hub's lock alone: with its own lock free it
\* can, whatever the locks of the other hubs.
C28_HubsIndependent ==
    ~crashed =>
      /\ \A c \in Conns :
            (pc[c] = "add" /\ mutex[hubOf[c]] = "free") => ENABLED AddClient(c)
      /\ \A c \in Conns :
            (pc[c] = "serve" /\ ReadFails(connState[c]) /\ mutex[hubOf[c]] = "free") =>
                ENABLED RemoveClient(c)
      /\ \A h \in Hubs :
            (loopPc[h] = "bcast" /\ mutex[h] = "free") =>
                ENABLED (BroadcastEmpty(h) \/ BroadcastSend(h) \/ BroadcastLock(h))

\* A handler is about to register a viewer with a hub whose lock is free
\* while a pass of another hub holds that hub's lock.
C28_Witness ==
    \E c \in Conns : \E g \in Hubs :
        /\ pc[c] = "add" /\ mutex[hubOf[c]] = "free"
        /\ g # hubOf[c] /\ mutex[g] # "free"

\* Line x has reached viewer c, in its snapshot or as a live line.
SentTo(c, x) ==
    \E i \in 1..Len(recv[c]) : recv[c][i] \in {SnapLineSeen(x), LiveLineSeen(x)}

\* Line x is still on its way to viewer c: the snapshot goroutine has it and
\* has not come to it, or the follow goroutine has not read it, or has it in
\* its buffer and the pass for it has not come to c.
OnItsWayTo(c, x) ==
    LET h == hubOf[c] IN
    \/ snapPc[c] = "send" /\ x <= snapN[c] /\ x > snapI[c]
    \/ x > loopPos[h]
    \/ /\ x \in Range(loopBuf[h])
       /\ \/ x # Head(loopBuf[h])
          \/ loopPc[h] = "bcast"
          \/ loopPc[h] = "send" /\ IndexOf(clients[h], c, 1) \in 1..bcastI[h]

\* C29: for a registered viewer whose snapshot has been read from a file of
\* at most 200 lines, whose connection is sound and whose hub's follow loop is
\* running, every line of the file has been sent to it or is on its way.
C29_NoGap ==
    \A c \in Conns :
        (/\ ~crashed
         /\ pc[c] = "serve" /\ connState[c] = "open"
         /\ snapPc[c] \in {"send", "done"} /\ snapN[c] \in 0..SnapshotLimit
         /\ loopPc[hubOf[c]] \in {"scan", "bcast", "send"})
        => \A x \in 1..fileLen : SentTo(c, x) \/ OnItsWayTo(c, x)

\* The tasks whose next step is a WriteMessage on connection c: its snapshot
\* goroutine, and the follow goroutine of a hub whose pass comes to c next.
NextWriters(c) ==
    (IF snapPc[c] = "send" THEN {0} ELSE {})
    \cup {h \in Hubs :
            \/ loopPc[h] = "send" /\ clients[h][bcastI[h]] = c
            \/ loopPc[h] = "bcast" /\ clients[h] # <<>> /\ clients[h][Len(clients[h])] = c}

\* C30: no connection has two tasks about to write to it.
C30_SingleWriter ==
    ~crashed => \A c \in Conns : Cardinality(NextWriters(c)) <= 1

\* C27: the page takes every log line for a regular line and shows its text
\* as it is, and takes every metadata record for a metadata record.
C27_ClassifiedAsSent ==
    data # NoPage =>
        /\ data.sent = "line" =>
              data.taken = "line" /\ logs # <<>> /\ logs[Len(logs)] = data.text
        /\ data.sent = "meta" => data.taken = "meta"

\* C31: no hub's viewer set holds a connection twice, and no connection is
\* in the sets of two hubs.
C31_ViewerSetsDisjoint ==
    /\ \A h \in Hubs : \A i, j \in 1..Len(clients[h]) :
          i # j => clients[h][i] # clients[h][j]
    /\ \A g, h \in Hubs : g # h => Range(clients[g]) \cap Range(clients[h]) = {}

\* A viewer of one hub has been unregistered after a pass of that hub wrote to
\* it, while another hub has a viewer that a pass of its own has written to.
C31_Witness ==
    \E c \in Conns : \E h \in Hubs :
        /\ pc[c] = "done" /\ hubOf[c] # h
        /\ \E i \in 1..Len(passLog[hubOf[c]]) : passLog[hubOf[c]][i][1] = c
        /\ clients[h] # <<>>
        /\ \E i \in 1..Len(passLog[h]) : passLog[h][i][1] \in Range(clients[h])

\* C32: every line of a load-more reply is a line of the file (the handler
\* reads no index outside 0..total-1), and the reply has at most limit lines,
\* none when the limit is zero or negative.
C32_WindowInsideFile ==
    (pageOut # NoPage /\ pageOut.status = 200) =>
        /\ \A i \in 1..Len(pageOut.lines) : pageOut.lines[i] \in 1..pageOut.total
        /\ Len(pageOut.lines) <= Max(pageOut.limit, 0)
        /\ pageOut.limit = (IF pageReq.hasLimit THEN pageReq.limit ELSE DefaultLimit)

\* A request whose window reaches beyond the end of the file got the lines up
\* to the end.
C32_Witness ==
    /\ pageOut # NoPage /\ pageOut.status = 200
    /\ pageReq.hasOffset /\ pageReq.hasLimit
    /\ pageReq.offset >= 0 /\ pageReq.offset < pageOut.total
    /\ pageReq.limit < IntMax - MaxPageLen - 1
    /\ pageReq.offset + pageReq.limit > pageOut.total
    /\ pageOut.lines # <<>>

\* C33: the page never counts more lines as shown than it counts in the file.
C33_ShownAtMostTotal == shownLines <= totalLines

\* C34: after a load-more reply is applied, its lines stand at the top of the
\* page in the order of the reply (file order), above the lines shown before.
C34_BatchInFileOrder ==
    data # NoPage =>
        /\ Len(logs) >= Len(data.lines)
        /\ SubSeq(logs, 1, Len(data.lines)) = data.lines

\* A write to some viewer of hub h does not return (its peer has stopped
\* reading and has not closed).
SendHangs(h) == \E d \in Range(clients[h]) : connState[d] = "stalled"

\* C35: unless a send hangs, a handler waiting to register or to unregister a
\* viewer gets the hub's lock and completes, a pass that holds the lock
\* releases it, and the follow goroutine gets through the lines it has read.
C35_LockEventuallyAcquired ==
    /\ \A c \in Conns :
          (pc[c] = "add") ~> (pc[c] = "serve" \/ SendHangs(hubOf[c]))
    /\ \A c \in Conns :
          (pc[c] = "serve" /\ ReadFails(connState[c])) ~> (pc[c] = "done" \/ SendHangs(hubOf[c]))
    /\ \A h \in Hubs :
          (mutex[h] # "free") ~> (mutex[h] = "free" \/ SendHangs(h))
    /\ \A h \in Hubs :
          (loopPc[h] = "bcast") ~> (loopPc[h] \in {"scan", "done"} \/ SendHangs(h))

\* A pass holds the hub's lock with no send hanging while one handler waits
\* to register a viewer and another to unregister one.
C35_Witness ==
    \E h \in Hubs : \E c, d \in Conns :
        /\ mutex[h] # "free" /\ ~SendHangs(h)
        /\ hubOf[c] = h /\ pc[c] = "add"
        /\ hubOf[d] = h /\ pc[d] = "serve" /\ ReadFails(connState[d])

\* What a viewer's received sequence shows for a LOAD_MORE_RESPONSE record.
LoadMoreSeen(total) == [k |-> "more", a |-> total, b |-> 0]

\* How many LOAD_MORE_RESPONSE records viewer c has received.
MoreRecords(c) ==
    Cardinality({i \in 1..Len(recv[c]) : recv[c][i] = LoadMoreSeen(recv[c][i].a)})

\* The messages of viewer c that were exactly LOAD_MORE and whose goroutine
\* has finished.
MoreDone(c) ==
    {i \in 1..Len(control[c]) : control[c][i].msg = "LOAD_MORE" /\ control[c][i].state = "done"}

\* Messages other than LOAD_MORE start nothing, LOAD_MORE always does.
OnlyLoadMoreTaken ==
    \A c \in Conns : \A i \in 1..Len(control[c]) :
        control[c][i].state = "ignored" <=> control[c][i].msg # "LOAD_MORE"

ControlStep == control' # control

====
